---- MODULE Spec2Model ----
(***************************************************************************)
(* Fabric-dependent bitstream builder of OpenFPGA                          *)
(* (openfpga/src/fpga_bitstream/build_fabric_bitstream.cpp).               *)
(*                                                                         *)
(* The two read-only databases (bitstream manager, module manager) are     *)
(* drawn once; the build is a step machine whose stack is the recursion    *)
(* stack of the chain / frame traversal.  A failed VTR_ASSERT or exit(1)   *)
(* ends the build with status "fatal" and the name of the failed check.    *)
(***************************************************************************)
EXTENDS Integers, Sequences, FiniteSets, TLC

(* ---------------- bounds of the explored databases ---------------- *)
MaxBlocks == 5
MaxBitsPerLeaf == 2
MaxWidth == 2

VARIABLES opt, bm, mm, protocol, status, fault, stack, fabric, standalone_ref

vars == <<opt, bm, mm, protocol, status, fault, stack, fabric, standalone_ref>>

(* ---------------- small sequence helpers ---------------- *)
RECURSIVE Asc(_)
Asc(S) == IF S = {} THEN << >>
          ELSE LET m == CHOOSE x \in S : \A y \in S : x <= y
               IN  <<m>> \o Asc(S \ {m})

RECURSIVE Flatten(_)
Flatten(ss) == IF ss = << >> THEN << >> ELSE Head(ss) \o Flatten(Tail(ss))

RECURSIVE Pow2(_)
Pow2(n) == IF n = 0 THEN 1 ELSE 2 * Pow2(n - 1)

(* ---------------- names ---------------- *)
(* generate_fpga_top_module_name() *)
FpgaTopName == "fpga_top"

(* ModuleManager::instance_name(parent, child, instance): the name        *)
(* synthesized from the child module's name and the instance index.       *)
instance_name(m, parent_module, child_module, child_instance) ==
  m.name[child_module] \o "_" \o ToString(child_instance) \o "_"

(* ---------------- bitstream manager (read-only) ---------------- *)
INVALID == 0

Blocks(b) == 1..Len(b.name)

block_children(b, blk) == b.children[blk]

block_bits(b, blk) == b.bits[blk]

block_name(b, blk) == b.name[blk]

bit_value(b, bit) == b.bit_value[bit]

(* BitstreamManager::bits(): every configuration bit of the database. *)
bits(b) == 1..Len(b.bit_value)

valid_block_id(b, blk) == blk \in Blocks(b)

(* BitstreamManager::find_child_block: the first child of the block that  *)
(* carries the name, INVALID when there is none.                          *)
find_child_block(b, blk, name) ==
  LET kids == block_children(b, blk)
      hits == {i \in 1..Len(kids) : block_name(b, kids[i]) = name}
  IN  IF hits = {} THEN INVALID
      ELSE kids[CHOOSE i \in hits : \A j \in hits : i <= j]

(* find_bitstream_manager_top_blocks: the blocks without a parent. *)
find_bitstream_manager_top_blocks(b) ==
  Asc({blk \in Blocks(b) : b.parent[blk] = INVALID})

(* ---------------- module manager (read-only) ---------------- *)
Modules(m) == 1..Len(m.name)

configurable_children(m, mod) == m.children[mod]

configurable_child_instances(m, mod) == m.instances[mod]

valid_module_id(m, mod) == mod \in Modules(m)

find_module(m, name) ==
  LET hits == {mod \in Modules(m) : m.name[mod] = name}
  IN  IF hits = {} THEN INVALID ELSE CHOOSE mod \in hits : \A o \in hits : mod <= o

(* Lines 161-163: the width of the module's port DECODER_ADDRESS_PORT_NAME. *)
decoder_addr_width(m, mod) == m.addr_width[mod]

(* ---------------- address encoder ---------------- *)
(* itobin_vec(in_int, bin_len) of openfpga_decode, as the specification   *)
(* gives it: exactly bin_len binary digits of in_int, zero-padded, most   *)
(* significant first; it fails unless in_int < 2^bin_len.                 *)
RECURSIVE itobin_vec(_, _)
itobin_vec(in_int, bin_len) ==
  IF bin_len = 0 THEN << >>
  ELSE Append(itobin_vec(in_int \div 2, bin_len - 1), in_int % 2)

itobin_fits(in_int, bin_len) == in_int < Pow2(bin_len)

(* ---------------- the explored databases ---------------- *)
(* Block trees: block 1 is the root, blocks are numbered in creation      *)
(* order (a parent before its children, siblings contiguous).             *)
ParentVectors(n) ==
  {p \in [1..n -> 0..(n - 1)] :
      /\ p[1] = INVALID
      /\ \A b \in 2..n : p[b] >= 1 /\ p[b] < b
      /\ \A b \in 3..n : p[b - 1] <= p[b]}

PertKinds ==
  {"rename", "detach", "reverse", "nochild", "nochild_bits", "extrachild", "innerbit",
   "selfloop", "dup"}

Perts(n) ==
  {[kind |-> "none", node |-> 0]} \cup
  {[kind |-> k, node |-> b] : k \in PertKinds, b \in 1..n}

RECURSIVE SumTo(_, _)
SumTo(f, k) == IF k = 0 THEN 0 ELSE f[k] + SumTo(f, k - 1)

Reverse(s) == [i \in 1..Len(s) |-> s[Len(s) + 1 - i]]

(* Block b is the first child of its parent. *)
FirstChild(p, b) == p[b] # 0 /\ \A c \in 1..(b - 1) : p[c] # p[b]

(* Block b is reached from block a by first children only. *)
RECURSIVE OnFirstChain(_, _, _)
OnFirstChain(p, b, a) ==
  /\ FirstChild(p, b)
  /\ p[b] = a \/ OnFirstChain(p, p[b], a)

(* The module manager that mirrors block tree p: module b is the module   *)
(* of block b, module n+1 is a decoder, module n+2 a memory cell.  With   *)
(* "selfloop" at b the first configurable child of module b is module b   *)
(* itself, and the blocks reached from b by first children are named as   *)
(* its instances.                                                         *)
MakeModules(n, p, dec, pert) ==
  LET at(b, k) == pert.kind = k /\ pert.node = b
      kids(b) == Asc({c \in 1..n : p[c] = b})
      base(b) ==
        IF at(b, "nochild") \/ at(b, "nochild_bits") THEN << >>
        ELSE IF at(b, "reverse") THEN Reverse(kids(b))
        ELSE IF at(b, "extrachild") THEN Append(kids(b), n + 2)
        ELSE IF at(b, "selfloop")
          THEN [i \in 1..Len(kids(b)) |-> IF i = 1 THEN b ELSE kids(b)[i]]
        ELSE kids(b)
      conf(b) ==
        IF b > n THEN << >>
        ELSE IF dec >= 0 /\ Len(base(b)) >= 2 THEN Append(base(b), n + 1)
        ELSE base(b)
  IN  [name       |-> [b \in 1..(n + 2) |->
                         IF b = 1 THEN FpgaTopName
                         ELSE IF b = n + 1 THEN "decoder"
                         ELSE IF b = n + 2 THEN "sram"
                         ELSE "m" \o ToString(b)],
       children   |-> [b \in 1..(n + 2) |-> conf(b)],
       instances  |-> [b \in 1..(n + 2) |-> [i \in 1..Len(conf(b)) |-> 0]],
       addr_width |-> [b \in 1..(n + 2) |-> IF dec >= 0 THEN dec ELSE 1]]

(* The bitstream manager built for block tree p: every leaf block owns    *)
(* perLeaf bits, bits are numbered in creation order, block names are the *)
(* instance names of the mirrored modules.                                *)
MakeBlocks(n, p, perLeaf, seed, m, pert) ==
  LET at(b, k) == pert.kind = k /\ pert.node = b
      par == [b \in 1..n |-> IF at(b, "detach") THEN INVALID ELSE p[b]]
      kids(b) == Asc({c \in 1..n : par[c] = b})
      cnt == [b \in 1..n |->
                (IF kids(b) = << >> THEN perLeaf ELSE 0)
                + (IF at(b, "innerbit") \/ at(b, "nochild_bits") THEN 1 ELSE 0)]
      total == SumTo(cnt, n)
  IN  [name       |-> [b \in 1..n |->
                         IF at(b, "rename") THEN "x"
                         ELSE IF b = 1 THEN FpgaTopName
                         ELSE IF pert.kind = "selfloop" /\ OnFirstChain(p, b, pert.node)
                           THEN instance_name(m, pert.node, pert.node, 0)
                         ELSE IF at(b, "dup") /\ p[b - 1] = p[b]
                           THEN instance_name(m, p[b], b - 1, 0)
                         ELSE instance_name(m, p[b], b, 0)],
       parent     |-> par,
       children   |-> [b \in 1..n |-> kids(b)],
       bits       |-> [b \in 1..n |-> [i \in 1..cnt[b] |-> SumTo(cnt, b - 1) + i]],
       bit_parent |-> [i \in 1..total |->
                         CHOOSE b \in 1..n :
                           SumTo(cnt, b - 1) < i /\ i <= SumTo(cnt, b)],
       bit_value  |-> [i \in 1..total |-> (i + seed) % 2]]

MakeInput(n, p, perLeaf, seed, dec, pert) ==
  LET m == MakeModules(n, p, dec, pert)
  IN  [bm |-> MakeBlocks(n, p, perLeaf, seed, m, pert), mm |-> m]

NoPert == [kind |-> "none", node |-> 0]

(* A bitstream manager without any block, next to a top module. *)
EmptyInput ==
  [bm |-> [name |-> << >>, parent |-> << >>, children |-> << >>, bits |-> << >>,
           bit_parent |-> << >>, bit_value |-> << >>],
   mm |-> MakeModules(1, <<0>>, -1, NoPert)]

Inputs ==
  {EmptyInput} \cup
  UNION {
    {MakeInput(n, p, perLeaf, seed, dec, NoPert) :
        p \in ParentVectors(n), perLeaf \in 0..MaxBitsPerLeaf,
        seed \in 0..1, dec \in (-1)..MaxWidth}
    \cup
    {MakeInput(n, p, 1, 0, dec, pert) :
        p \in ParentVectors(n), dec \in (-1)..MaxWidth, pert \in Perts(n)}
    : n \in 1..MaxBlocks}

(* ---------------- protocols ---------------- *)
ChainProtocols == {"CONFIG_MEM_STANDALONE", "CONFIG_MEM_SCAN_CHAIN"}

KnownProtocols ==
  ChainProtocols \cup {"CONFIG_MEM_MEMORY_BANK", "CONFIG_MEM_FRAME_BASED"}

(* Every value of the protocol tag, the one outside the closed set included. *)
ProtocolTags == KnownProtocols \cup {"NUM_CONFIG_PROTOCOL_TYPES"}

(* ---------------- fabric bitstream ---------------- *)
(* FabricBitstream::add_bit: a new fabric bit that references config_bit. *)
add_bit(fab, config_bit) ==
  Append(fab, [bit |-> config_bit, address |-> << >>, din |-> 0])

set_bit_address(fab, fabric_bit, addr) ==
  [fab EXCEPT ![fabric_bit].address = addr]

set_bit_din(fab, fabric_bit, value) ==
  [fab EXCEPT ![fabric_bit].din = value]

(* FabricBitstream::reverse *)
fabric_reverse(fab) == [i \in 1..Len(fab) |-> fab[Len(fab) + 1 - i]]

(* Mutant: the bits of a block appended last to first. *)
RECURSIVE ChainEmitBackwards(_, _)
ChainEmitBackwards(fab, config_bits) ==
  IF config_bits = << >> THEN fab
  ELSE ChainEmitBackwards(
         Append(fab, [bit |-> config_bits[Len(config_bits)],
                      address |-> << >>, din |-> 0]),
         SubSeq(config_bits, 1, Len(config_bits) - 1))

(* Lines 71-73: the bits of the block, appended in storage order. *)
RECURSIVE ChainEmit(_, _)
ChainEmit(fab, config_bits) ==
  IF config_bits = << >> THEN fab
  ELSE ChainEmit(add_bit(fab, Head(config_bits)), Tail(config_bits))

(* Mutant: the data input of a new fabric bit is never set. *)
RECURSIVE FrameEmitNoDin(_, _, _)
FrameEmitNoDin(fab, config_bits, addr_code) ==
  IF config_bits = << >> THEN fab
  ELSE FrameEmitNoDin(
         Append(fab, [bit |-> Head(config_bits), address |-> addr_code, din |-> 0]),
         Tail(config_bits), addr_code)

(* Lines 184-192: the bits of the block, each with the accumulated        *)
(* address and the stored value as data input.                            *)
RECURSIVE FrameEmit(_, _, _)
FrameEmit(fab, config_bits, addr_code) ==
  IF config_bits = << >> THEN fab
  ELSE LET config_bit == Head(config_bits)
           added      == add_bit(fab, config_bit)
           fabric_bit == Len(added)
           addressed  == set_bit_address(added, fabric_bit, addr_code)
       IN  FrameEmit(set_bit_din(addressed, fabric_bit, bit_value(bm, config_bit)),
                     Tail(config_bits), addr_code)

(* ---------------- recursion stack ---------------- *)
(* One frame per active call of a rec_build_... function.  pc "entry" is  *)
(* the call before its first test, pc "loop" the call inside its loop     *)
(* over the configurable children, child_id the loop variable.            *)
Frame(block, module, addr_code) ==
  [block |-> block, module |-> module, pc |-> "entry", child_id |-> 0,
   addr_code |-> addr_code, num_children |-> 0, add_addr_code |-> TRUE,
   decoder_module |-> INVALID]

Top == stack[Len(stack)]

(* Mutant: the caller's loop variable is not advanced after the call. *)
ReturnedNoAdvance == SubSeq(stack, 1, Len(stack) - 1)

(* The stack after the call on top returned: the caller's loop advances. *)
Returned ==
  IF Len(stack) = 1 THEN << >>
  ELSE LET caller == stack[Len(stack) - 1]
       IN  Append(SubSeq(stack, 1, Len(stack) - 2),
                  [caller EXCEPT !.child_id = caller.child_id + 1])

Called(frame) == Append(stack, frame)

Running(protocols) ==
  status = "running" /\ protocol \in protocols /\ stack # << >>

Fatal(reason) ==
  /\ status' = "fatal"
  /\ fault' = reason
  /\ UNCHANGED <<opt, bm, mm, protocol, stack, fabric, standalone_ref>>

(* The child of the loop iteration the frame is at. *)
ChildModule(f) == configurable_children(mm, f.module)[f.child_id + 1]

ChildInstance(f) == configurable_child_instances(mm, f.module)[f.child_id + 1]

(* A lookup that ignores the instance name and takes the first child. *)
ChildBlockUnnamed(f) ==
  IF Len(block_children(bm, f.block)) = 0 THEN INVALID
  ELSE block_children(bm, f.block)[1]

ChildBlock(f) ==
  find_child_block(bm, f.block,
                   instance_name(mm, f.module, ChildModule(f), ChildInstance(f)))

(* ---------------- build_fabric_dependent_bitstream ---------------- *)
(* The builder takes no VerilogTestbenchOption: none is constructed here. *)
NoOption == [object |-> "none"]

Init ==
  /\ opt = NoOption
  /\ \E inp \in Inputs : bm = inp.bm /\ mm = inp.mm
  /\ protocol = "CONFIG_MEM_STANDALONE"
  /\ status = "none"
  /\ fault = "none"
  /\ stack = << >>
  /\ fabric = << >>
  /\ standalone_ref = [status |-> "none", fabric |-> << >>]

top_module == find_module(mm, FpgaTopName)

top_block == find_bitstream_manager_top_blocks(bm)

(* Mutant: the name of the top block is not compared. *)
TopLevelChecksNoName ==
  /\ valid_module_id(mm, top_module)
  /\ Len(top_block) = 1

(* Lines 287, 292, 293: the three assertions before the dispatch. *)
TopLevelChecks ==
  /\ valid_module_id(mm, top_module)
  /\ Len(top_block) = 1
  /\ block_name(bm, top_block[1]) = FpgaTopName

(* A build may start whenever none is running; the outcome of the latest  *)
(* standalone build is kept for comparison.                               *)
Fresh(p) ==
  /\ status # "running"
  /\ protocol' = p
  /\ standalone_ref' =
       IF protocol = "CONFIG_MEM_STANDALONE" /\ status \in {"returned", "fatal"}
       THEN [status |-> status, fabric |-> fabric]
       ELSE standalone_ref
  /\ UNCHANGED <<opt, bm, mm>>

StartRejected ==
  \E p \in ProtocolTags :
    /\ Fresh(p)
    /\ ~TopLevelChecks
    /\ status' = "fatal"
    /\ fault' = "top_level"
    /\ stack' = << >>
    /\ fabric' = << >>

StartChain ==
  \E p \in ChainProtocols :
    /\ Fresh(p)
    /\ TopLevelChecks
    /\ status' = "running"
    /\ fault' = "none"
    /\ stack' = <<Frame(top_block[1], top_module, << >>)>>
    /\ fabric' = << >>

StartMemoryBank ==
  /\ Fresh("CONFIG_MEM_MEMORY_BANK")
  /\ TopLevelChecks
  /\ status' = "running"
  /\ fault' = "none"
  /\ stack' = << >>
  /\ fabric' = << >>

StartFrame ==
  /\ Fresh("CONFIG_MEM_FRAME_BASED")
  /\ TopLevelChecks
  /\ status' = "running"
  /\ fault' = "none"
  /\ stack' = <<Frame(top_block[1], top_module, << >>)>>
  /\ fabric' = << >>

StartInvalid ==
  \E p \in ProtocolTags \ KnownProtocols :
    /\ Fresh(p)
    /\ TopLevelChecks
    /\ status' = "fatal"
    /\ fault' = "invalid_protocol"
    /\ stack' = << >>
    /\ fabric' = << >>

(* Lines 214-220 and 258-259: what the dispatcher does once the traversal *)
(* it started has returned.                                               *)
(* Mutant: the scan-chain branch forgets fabric_bitstream.reverse(). *)
DispatchedNoReverse(fab) == fab

Dispatched(fab) ==
  IF protocol = "CONFIG_MEM_SCAN_CHAIN" THEN fabric_reverse(fab) ELSE fab

(* Mutant: the final assertion is compiled out. *)
SizeCheckSkipped(fab) == TRUE

(* Mutant: the final assertion only bounds the size from above. *)
SizeCheckAtMost(fab) == Len(fab) <= Cardinality(bits(bm))

SizeCheck(fab) == Cardinality(bits(bm)) = Len(fab)

Finish ==
  /\ status = "running"
  /\ stack = << >>
  /\ fabric' = Dispatched(fabric)
  /\ IF SizeCheck(fabric')
     THEN status' = "returned" /\ fault' = "none"
     ELSE status' = "fatal" /\ fault' = "size_mismatch"
  /\ UNCHANGED <<opt, bm, mm, protocol, stack, standalone_ref>>

(* ---------------- rec_build_module_fabric_dependent_chain_bitstream ---- *)
(* Line 45 false: the block has no child block; lines 71-73 emit its bits. *)
ChainLeaf ==
  /\ Running(ChainProtocols)
  /\ Top.pc = "entry"
  /\ Len(block_children(bm, Top.block)) = 0
  /\ fabric' = ChainEmit(fabric, block_bits(bm, Top.block))
  /\ stack' = Returned
  /\ UNCHANGED <<opt, bm, mm, protocol, status, fault, standalone_ref>>

(* Line 45 true: the loop over the module's configurable children starts. *)
ChainEnterLoop ==
  /\ Running(ChainProtocols)
  /\ Top.pc = "entry"
  /\ 0 < Len(block_children(bm, Top.block))
  /\ stack' = [stack EXCEPT ![Len(stack)] =
                 [Top EXCEPT !.pc = "loop", !.child_id = 0,
                             !.num_children =
                                Len(configurable_children(mm, Top.module))]]
  /\ UNCHANGED <<opt, bm, mm, protocol, status, fault, fabric, standalone_ref>>

(* Lines 47-61: the child block is found and the recursion descends. *)
ChainDescend ==
  /\ Running(ChainProtocols)
  /\ Top.pc = "loop"
  /\ Top.child_id < Top.num_children
  /\ valid_block_id(bm, ChildBlock(Top))
  /\ stack' = Called(Frame(ChildBlock(Top), ChildModule(Top), << >>))
  /\ UNCHANGED <<opt, bm, mm, protocol, status, fault, fabric, standalone_ref>>

(* Mutant: a child without a block is skipped and the loop goes on. *)
ChainLookupSkip ==
  /\ Running(ChainProtocols)
  /\ Top.pc = "loop"
  /\ Top.child_id < Top.num_children
  /\ ~valid_block_id(bm, ChildBlock(Top))
  /\ stack' = [stack EXCEPT ![Len(stack)] = [Top EXCEPT !.child_id = Top.child_id + 1]]
  /\ UNCHANGED <<opt, bm, mm, protocol, status, fault, fabric, standalone_ref>>

(* Lines 55-56: no child block carries the instance name. *)
ChainLookupMiss ==
  /\ Running(ChainProtocols)
  /\ Top.pc = "loop"
  /\ Top.child_id < Top.num_children
  /\ ~valid_block_id(bm, ChildBlock(Top))
  /\ Fatal("child_block_not_found")

(* Line 64 fails: a block with child blocks owns bits. *)
ChainParentBits ==
  /\ Running(ChainProtocols)
  /\ Top.pc = "loop"
  /\ Top.child_id = Top.num_children
  /\ Len(block_bits(bm, Top.block)) # 0
  /\ Fatal("parent_block_has_bits")

(* Line 64 holds; lines 71-73 find no bit to add and the call returns. *)
ChainReturn ==
  /\ Running(ChainProtocols)
  /\ Top.pc = "loop"
  /\ Top.child_id = Top.num_children
  /\ Len(block_bits(bm, Top.block)) = 0
  /\ fabric' = ChainEmit(fabric, block_bits(bm, Top.block))
  /\ stack' = Returned
  /\ UNCHANGED <<opt, bm, mm, protocol, status, fault, standalone_ref>>

(* ---------------- rec_build_module_fabric_dependent_frame_bitstream ---- *)
FrameProtocols == {"CONFIG_MEM_FRAME_BASED"}

(* Line 110 false: the block has no child block; lines 184-192 emit.      *)
FrameLeaf ==
  /\ Running(FrameProtocols)
  /\ Top.pc = "entry"
  /\ Len(block_children(bm, Top.block)) = 0
  /\ fabric' = FrameEmit(fabric, block_bits(bm, Top.block), Top.addr_code)
  /\ stack' = Returned
  /\ UNCHANGED <<opt, bm, mm, protocol, status, fault, standalone_ref>>

(* Mutant: the early exit falls through to the code that emits the bits. *)
FrameEarlyExitEmits ==
  /\ Running({"CONFIG_MEM_FRAME_BASED"})
  /\ Top.pc = "entry"
  /\ 0 < Len(block_children(bm, Top.block))
  /\ Len(configurable_children(mm, Top.module)) = 0
  /\ fabric' = FrameEmit(fabric, block_bits(bm, Top.block), Top.addr_code)
  /\ stack' = Returned
  /\ UNCHANGED <<opt, bm, mm, protocol, status, fault, standalone_ref>>

(* Lines 120-122: the block has child blocks, the module no configurable  *)
(* child: the call returns at once.                                       *)
FrameEarlyExit ==
  /\ Running(FrameProtocols)
  /\ Top.pc = "entry"
  /\ 0 < Len(block_children(bm, Top.block))
  /\ Len(configurable_children(mm, Top.module)) = 0
  /\ stack' = Returned
  /\ UNCHANGED <<opt, bm, mm, protocol, status, fault, fabric, standalone_ref>>

(* Mutant: the assertion admits two configurable children. *)
FrameDecoderAssertFromTwo(num_configurable_children) == 2 <= num_configurable_children

(* Line 132: VTR_ASSERT(2 < num_configurable_children) in the branch of   *)
(* more than one configurable child.                                      *)
FrameDecoderAssert(num_configurable_children) == 2 < num_configurable_children

FrameTooFewChildren ==
  /\ Running(FrameProtocols)
  /\ Top.pc = "entry"
  /\ 0 < Len(block_children(bm, Top.block))
  /\ Len(configurable_children(mm, Top.module)) > 1
  /\ ~FrameDecoderAssert(Len(configurable_children(mm, Top.module)))
  /\ Fatal("num_configurable_children")

(* Lines 125-135: the number of children the loop iterates over. *)
FrameLoopCount(num_configurable_children) ==
  IF num_configurable_children = 1 THEN 1 ELSE num_configurable_children - 1

FrameEnterLoop ==
  /\ Running(FrameProtocols)
  /\ Top.pc = "entry"
  /\ 0 < Len(block_children(bm, Top.block))
  /\ LET conf == configurable_children(mm, Top.module)
         n    == Len(conf)
     IN  /\ n # 0
         /\ n = 1 \/ FrameDecoderAssert(n)
         /\ stack' = [stack EXCEPT ![Len(stack)] =
                        [Top EXCEPT !.pc = "loop", !.child_id = 0,
                                    !.num_children = FrameLoopCount(n),
                                    !.add_addr_code = (n # 1),
                                    !.decoder_module =
                                       IF n = 1 THEN INVALID ELSE conf[n]]]
  /\ UNCHANGED <<opt, bm, mm, protocol, status, fault, fabric, standalone_ref>>

(* Mutant: the child's address is never extended. *)
FrameChildAddrKept(f) == f.addr_code

(* Mutant: the code of this level is put in front of the address. *)
FrameChildAddrInFront(f) ==
  IF f.add_addr_code
  THEN itobin_vec(f.child_id, decoder_addr_width(mm, f.decoder_module)) \o f.addr_code
  ELSE f.addr_code

(* Lines 157-168: the address passed to the child. *)
FrameChildAddr(f) ==
  IF f.add_addr_code
  THEN f.addr_code \o itobin_vec(f.child_id, decoder_addr_width(mm, f.decoder_module))
  ELSE f.addr_code

FrameAddrFits(f) ==
  f.add_addr_code =>
    itobin_fits(f.child_id, decoder_addr_width(mm, f.decoder_module))

(* Lines 138-174: the child block is found, the address extended and the  *)
(* recursion descends.                                                    *)
FrameDescend ==
  /\ Running(FrameProtocols)
  /\ Top.pc = "loop"
  /\ Top.child_id < Top.num_children
  /\ valid_block_id(bm, ChildBlock(Top))
  /\ FrameAddrFits(Top)
  /\ stack' = Called(Frame(ChildBlock(Top), ChildModule(Top), FrameChildAddr(Top)))
  /\ UNCHANGED <<opt, bm, mm, protocol, status, fault, fabric, standalone_ref>>

(* Lines 146-147: no child block carries the instance name. *)
FrameLookupMiss ==
  /\ Running(FrameProtocols)
  /\ Top.pc = "loop"
  /\ Top.child_id < Top.num_children
  /\ ~valid_block_id(bm, ChildBlock(Top))
  /\ Fatal("child_block_not_found")

(* Line 163: the child index does not fit the decoder's address width. *)
FrameAddrOverflow ==
  /\ Running(FrameProtocols)
  /\ Top.pc = "loop"
  /\ Top.child_id < Top.num_children
  /\ valid_block_id(bm, ChildBlock(Top))
  /\ ~FrameAddrFits(Top)
  /\ Fatal("address_overflow")

(* Line 177 fails: a block with child blocks owns bits. *)
FrameParentBits ==
  /\ Running(FrameProtocols)
  /\ Top.pc = "loop"
  /\ Top.child_id = Top.num_children
  /\ Len(block_bits(bm, Top.block)) # 0
  /\ Fatal("parent_block_has_bits")

(* Line 177 holds; lines 184-192 find no bit to add and the call returns. *)
FrameReturn ==
  /\ Running(FrameProtocols)
  /\ Top.pc = "loop"
  /\ Top.child_id = Top.num_children
  /\ Len(block_bits(bm, Top.block)) = 0
  /\ fabric' = FrameEmit(fabric, block_bits(bm, Top.block), Top.addr_code)
  /\ stack' = Returned
  /\ UNCHANGED <<opt, bm, mm, protocol, status, fault, standalone_ref>>

(* ---------------- specification ---------------- *)
Next ==
  \/ StartRejected
  \/ StartChain
  \/ StartMemoryBank
  \/ StartFrame
  \/ StartInvalid
  \/ ChainLeaf
  \/ ChainEnterLoop
  \/ ChainDescend
  \/ ChainLookupMiss
  \/ ChainParentBits
  \/ ChainReturn
  \/ FrameLeaf
  \/ FrameEarlyExit
  \/ FrameTooFewChildren
  \/ FrameEnterLoop
  \/ FrameDescend
  \/ FrameLookupMiss
  \/ FrameAddrOverflow
  \/ FrameParentBits
  \/ FrameReturn
  \/ Finish

Spec == Init /\ [][Next]_vars

(* ======================= properties ======================= *)
(* Number of bits owned by the blocks 1..k. *)
RECURSIVE OwnedUpTo(_)
OwnedUpTo(k) == IF k = 0 THEN 0 ELSE Len(bm.bits[k]) + OwnedUpTo(k - 1)

TotalOwned == OwnedUpTo(Len(bm.name))

RECURSIVE LeafOwnedUpTo(_)
LeafOwnedUpTo(k) ==
  IF k = 0 THEN 0
  ELSE (IF Len(bm.children[k]) = 0 THEN Len(bm.bits[k]) ELSE 0) + LeafOwnedUpTo(k - 1)

BitIds(fab) == [i \in 1..Len(fab) |-> fab[i].bit]

InstanceNames(mod) ==
  [i \in 1..Len(mm.children[mod]) |->
     instance_name(mm, mod, mm.children[mod][i], mm.instances[mod][i])]

(* The children of blk that carry the name. *)
Named(blk, name) ==
  {c \in {bm.children[blk][i] : i \in 1..Len(bm.children[blk])} : bm.name[c] = name}

(* A well-formed pair at (blk, mod): the configurable children of the     *)
(* module and the child blocks match one to one by instance name, a block *)
(* with child blocks owns no bit, and so on below.                        *)
RECURSIVE WellFormedAt(_, _)
WellFormedAt(blk, mod) ==
  LET names == InstanceNames(mod)
      kids  == bm.children[blk]
  IN  /\ Len(names) = Len(kids)
      /\ \A i, j \in 1..Len(names) : names[i] = names[j] => i = j
      /\ \A i \in 1..Len(names) : Cardinality(Named(blk, names[i])) = 1
      /\ Len(kids) > 0 => Len(bm.bits[blk]) = 0
      /\ \A i \in 1..Len(names) :
           WellFormedAt(CHOOSE c \in Named(blk, names[i]) : TRUE, mm.children[mod][i])

WellFormedPair == TopLevelChecks /\ WellFormedAt(top_block[1], top_module)

(* The depth-first leaf-bit sequence: the configurable children of each   *)
(* module in stored order, the bits of each leaf in storage order.        *)
RECURSIVE LeafBitsDFS(_, _)
LeafBitsDFS(blk, mod) ==
  IF Len(mm.children[mod]) = 0 THEN bm.bits[blk]
  ELSE Flatten([i \in 1..Len(mm.children[mod]) |->
                  LeafBitsDFS(CHOOSE c \in Named(blk, InstanceNames(mod)[i]) : TRUE,
                              mm.children[mod][i])])

(* C1: under the standalone-chain protocol a well-formed tree pair is    *)
(* built without failure, the output has as many bits as the leaf blocks  *)
(* own, and its order is the depth-first leaf-bit sequence, not reversed. *)
C1_StandaloneIsDepthFirst ==
  (protocol = "CONFIG_MEM_STANDALONE" /\ status \in {"returned", "fatal"}
     /\ WellFormedPair)
  => /\ status = "returned"
     /\ Len(fabric) = LeafOwnedUpTo(Len(bm.name))
     /\ BitIds(fabric) = LeafBitsDFS(top_block[1], top_module)

(* A standalone build of a well-formed pair with several leaves returned  *)
(* bits that are not in creation order.                                   *)
C1_Witness ==
  /\ protocol = "CONFIG_MEM_STANDALONE"
  /\ status = "returned"
  /\ WellFormedPair
  /\ Len(fabric) >= 4
  /\ \E i \in 1..(Len(fabric) - 1) : fabric[i].bit > fabric[i + 1].bit

(* C2: on identical inputs the scan-chain output is the standalone       *)
(* output reversed: position k of one is position len+1-k of the other    *)
(* (1-based), and one build returns exactly when the other does.          *)
C2_ScanIsStandaloneReversed ==
  (protocol = "CONFIG_MEM_SCAN_CHAIN" /\ status \in {"returned", "fatal"}
     /\ standalone_ref.status # "none")
  => /\ status = "returned" <=> standalone_ref.status = "returned"
     /\ status = "returned" =>
          /\ Len(fabric) = Len(standalone_ref.fabric)
          /\ \A k \in 1..Len(fabric) :
               fabric[k] = standalone_ref.fabric[Len(fabric) + 1 - k]

(* A scan-chain build returned after a standalone build returned, and     *)
(* the two outputs differ.                                                *)
C2_Witness ==
  /\ protocol = "CONFIG_MEM_SCAN_CHAIN"
  /\ status = "returned"
  /\ standalone_ref.status = "returned"
  /\ Len(fabric) >= 3
  /\ fabric # standalone_ref.fabric

(* C3: for every protocol of the closed set the size check follows the   *)
(* dispatch: a build that returned emitted exactly as many bits as the    *)
(* block tree owns, and a traversal that ends with another count ends the *)
(* build fatally.                                                         *)
C3_SizeChecked ==
  /\ [](status = "returned" =>
          protocol \in KnownProtocols /\ Len(fabric) = TotalOwned)
  /\ [][(status = "running" /\ stack = << >> /\ Len(fabric) # TotalOwned)
          => (status' = "fatal" /\ fault' = "size_mismatch")]_vars

(* A frame-based build returned a bitstream of several bits. *)
C3_Witness ==
  /\ status = "returned"
  /\ protocol = "CONFIG_MEM_FRAME_BASED"
  /\ Len(fabric) >= 2

(* C4: under the memory-bank protocol nothing is traversed, the          *)
(* bitstream is empty at the size check, the build fails whenever the     *)
(* tree owns a bit and returns (empty) only when it owns none.            *)
C4_MemoryBankEmpty ==
  protocol = "CONFIG_MEM_MEMORY_BANK"
  => /\ stack = << >>
     /\ fabric = << >>
     /\ status = "returned" => TotalOwned = 0
     /\ (status = "fatal" /\ TotalOwned = 0) => fault = "top_level"
     /\ (status = "fatal" /\ fault # "top_level") => fault = "size_mismatch"
     /\ (status \in {"returned", "fatal"} /\ TotalOwned > 0) => status = "fatal"

(* A memory-bank build of a tree that owns bits failed its size check. *)
C4_Witness ==
  /\ protocol = "CONFIG_MEM_MEMORY_BANK"
  /\ status = "fatal"
  /\ fault = "size_mismatch"
  /\ TotalOwned > 0

(* ---------------- the frame-based claims ---------------- *)
NConf(f) == Len(mm.children[f.module])

(* A frame-builder call at its entry, on a block that has child blocks. *)
FrameEntryInner ==
  /\ Running({"CONFIG_MEM_FRAME_BASED"})
  /\ Top.pc = "entry"
  /\ 0 < Len(bm.children[Top.block])

(* The step turns the entered call into a loop over all configurable      *)
(* children but the last, which is kept as the decoder.                   *)
LoopsOverAllButLast ==
  /\ status' = "running"
  /\ Len(stack') = Len(stack)
  /\ stack'[Len(stack)].pc = "loop"
  /\ stack'[Len(stack)].child_id = 0
  /\ stack'[Len(stack)].num_children = NConf(Top) - 1
  /\ stack'[Len(stack)].decoder_module = mm.children[Top.module][NConf(Top)]
  /\ fabric' = fabric

(* A call is made from the loop on top of the stack. *)
Descends == Len(stack') = Len(stack) + 1

(* The statement of C5 as written: N = 2 is handled like every N >= 2. *)
C5_Original ==
  [][(FrameEntryInner /\ NConf(Top) >= 2) => LoopsOverAllButLast]_vars

(* C5 (amended): for N >= 3 the last configurable child is the decoder,  *)
(* it is never recursed into and the other N-1 children are recursed into *)
(* one after the other in stored order; N = 2 fails the assertion of      *)
(* line 132 and ends the build.                                           *)
C5_DecoderIsLastOfThree ==
  [][/\ (FrameEntryInner /\ NConf(Top) >= 3) => LoopsOverAllButLast
     /\ (FrameEntryInner /\ NConf(Top) = 2) =>
          (status' = "fatal" /\ fault' = "num_configurable_children"
             /\ fabric' = fabric /\ stack' = stack)
     /\ (Running({"CONFIG_MEM_FRAME_BASED"}) /\ Top.pc = "loop" /\ NConf(Top) >= 2
           /\ Descends) =>
          /\ Top.child_id + 1 < NConf(Top)
          /\ stack'[Len(stack')].module = mm.children[Top.module][Top.child_id + 1]
          /\ stack'[Len(stack')].pc = "entry"
     /\ (Running({"CONFIG_MEM_FRAME_BASED"}) /\ Len(stack) >= 2
           /\ Len(stack') = Len(stack) - 1) =>
          stack'[Len(stack')].child_id = stack[Len(stack) - 1].child_id + 1
     /\ (Running({"CONFIG_MEM_FRAME_BASED"}) /\ Top.pc = "loop" /\ NConf(Top) >= 2
           /\ Len(stack') = Len(stack) - 1) =>
          Top.child_id = NConf(Top) - 1
    ]_vars

(* A frame-based call went through all N-1 >= 2 children before the       *)
(* decoder and is about to return.                                        *)
C5_Witness ==
  /\ Running({"CONFIG_MEM_FRAME_BASED"})
  /\ Top.pc = "loop"
  /\ NConf(Top) >= 3
  /\ Top.child_id = NConf(Top) - 1
  /\ Len(fabric) >= 2

(* The module and the 0-based configurable-child index that a block is    *)
(* joined to, following the names from the root.                          *)
RECURSIVE RefModule(_), RefIndex(_)
RefModule(blk) ==
  IF bm.parent[blk] = INVALID THEN top_module
  ELSE mm.children[RefModule(bm.parent[blk])][RefIndex(blk) + 1]

RefIndex(blk) ==
  LET names == InstanceNames(RefModule(bm.parent[blk]))
      hits  == {i \in 1..Len(names) : names[i] = bm.name[blk]}
  IN  (CHOOSE i \in hits : \A j \in hits : i <= j) - 1

(* Number of configurable children at the level above blk, and the width  *)
(* of the address port of the last of them.                               *)
LevelN(blk) == Len(mm.children[RefModule(bm.parent[blk])])

LevelW(blk) ==
  LET conf == mm.children[RefModule(bm.parent[blk])]
  IN  mm.addr_width[conf[Len(conf)]]

RECURSIVE ExpectedAddrLen(_)
ExpectedAddrLen(blk) ==
  IF bm.parent[blk] = INVALID THEN 0
  ELSE ExpectedAddrLen(bm.parent[blk])
       + (IF LevelN(blk) = 1 THEN 0 ELSE IF LevelN(blk) >= 2 THEN LevelW(blk) ELSE -1)

(* C6: under the frame-based protocol the address of every emitted bit   *)
(* is as long as the sum, over the levels from the root to the owning     *)
(* leaf, of 0 for a level with one configurable child and W for a level   *)
(* with two or more.                                                      *)
C6_AddressLength ==
  protocol = "CONFIG_MEM_FRAME_BASED"
  => \A k \in 1..Len(fabric) :
       Len(fabric[k].address) = ExpectedAddrLen(bm.bit_parent[fabric[k].bit])

(* A returned frame-based build holds a bit below two decoder levels and  *)
(* a bit below one.                                                       *)
C6_Witness ==
  /\ protocol = "CONFIG_MEM_FRAME_BASED"
  /\ status = "returned"
  /\ \E k, l \in 1..Len(fabric) :
       /\ Len(fabric[k].address) = 4
       /\ Len(fabric[l].address) = 2

(* i written with w binary digits, most significant first. *)
BinaryMSB(i, w) == [k \in 1..w |-> (i \div Pow2(w - k)) % 2]

RECURSIVE ExpectedAddr(_)
ExpectedAddr(blk) ==
  IF bm.parent[blk] = INVALID THEN << >>
  ELSE ExpectedAddr(bm.parent[blk])
       \o (IF LevelN(blk) = 1 THEN << >> ELSE BinaryMSB(RefIndex(blk), LevelW(blk)))

(* No block on the path from the root to blk is joined to the last of     *)
(* two or more configurable children.                                     *)
RECURSIVE DecoderFreePath(_)
DecoderFreePath(blk) ==
  \/ bm.parent[blk] = INVALID
  \/ /\ LevelN(blk) >= 2 => RefIndex(blk) + 1 < LevelN(blk)
     /\ DecoderFreePath(bm.parent[blk])

(* Scenario B: root with configurable children [X, Y, D], D a decoder     *)
(* with a 2-bit address port, X owning one bit of value 1 and Y one bit   *)
(* of value 0.                                                            *)
ScenarioB == MakeInput(3, <<0, 1, 1>>, 1, 0, 2, NoPert)

InScenarioB == bm = ScenarioB.bm /\ mm = ScenarioB.mm

(* C7: under the frame-based protocol the address of every emitted bit   *)
(* is the concatenation, root level first, of the W-digit binary code of  *)
(* the index of the child taken at each level that has a decoder; no bit  *)
(* comes from a decoder; scenario B yields X's bit at [0,0] with data 1   *)
(* and Y's bit at [0,1] with data 0.                                      *)
C7_AddressIsChildPath ==
  protocol = "CONFIG_MEM_FRAME_BASED"
  => /\ \A k \in 1..Len(fabric) :
          /\ fabric[k].address = ExpectedAddr(bm.bit_parent[fabric[k].bit])
          /\ DecoderFreePath(bm.bit_parent[fabric[k].bit])
     /\ (InScenarioB /\ status \in {"returned", "fatal"}) =>
          /\ status = "returned"
          /\ fabric = << [bit |-> 1, address |-> <<0, 0>>, din |-> 1],
                         [bit |-> 2, address |-> <<0, 1>>, din |-> 0] >>

(* Scenario B was built. *)
C7_Witness ==
  /\ InScenarioB
  /\ mm.children[1] = <<2, 3, 4>>
  /\ mm.addr_width[4] = 2
  /\ bm.bits = << << >>, <<1>>, <<2>> >>
  /\ bm.bit_value = <<1, 0>>
  /\ protocol = "CONFIG_MEM_FRAME_BASED"
  /\ status = "returned"

(* C8: under the frame-based protocol the data input of every emitted    *)
(* bit is the value stored for the configuration bit it references.       *)
C8_DataInIsStoredValue ==
  protocol = "CONFIG_MEM_FRAME_BASED"
  => \A k \in 1..Len(fabric) : fabric[k].din = bm.bit_value[fabric[k].bit]

(* A returned frame-based build holds a bit with data 1 and one with 0. *)
C8_Witness ==
  /\ protocol = "CONFIG_MEM_FRAME_BASED"
  /\ status = "returned"
  /\ \E k, l \in 1..Len(fabric) : fabric[k].din = 1 /\ fabric[l].din = 0

(* The call on top of the stack returns to its caller in this step. *)
TopReturns ==
  /\ status' = "running"
  /\ stack' = Returned

(* The statement of C9 as written: a call entered on a module without     *)
(* configurable children returns and appends nothing.                     *)
C9_Original ==
  [][(Running({"CONFIG_MEM_FRAME_BASED"}) /\ Top.pc = "entry" /\ NConf(Top) = 0)
       => (TopReturns /\ fabric' = fabric)]_vars

(* C9 (amended): a frame-builder call entered on a module without        *)
(* configurable children returns at once and appends nothing when its     *)
(* block has at least one child block, whatever bits that block owns; when*)
(* the block has no child block (the root of a single-block fabric        *)
(* included) the call appends every bit of the block, with the address    *)
(* accumulated so far, and returns.                                       *)
C9_EarlyExitOnlyWithChildBlocks ==
  [][(Running({"CONFIG_MEM_FRAME_BASED"}) /\ Top.pc = "entry" /\ NConf(Top) = 0)
       => /\ TopReturns
          /\ IF 0 < Len(bm.children[Top.block])
             THEN fabric' = fabric
             ELSE /\ Len(fabric') = Len(fabric) + Len(bm.bits[Top.block])
                  /\ SubSeq(fabric', 1, Len(fabric)) = fabric
                  /\ \A i \in 1..Len(bm.bits[Top.block]) :
                       /\ fabric'[Len(fabric) + i].bit = bm.bits[Top.block][i]
                       /\ fabric'[Len(fabric) + i].address = Top.addr_code
    ]_vars

(* The root call of a frame-based build took the early exit on a block    *)
(* that owns a bit, and the build then failed its size check.             *)
C9_Witness ==
  /\ protocol = "CONFIG_MEM_FRAME_BASED"
  /\ status = "fatal"
  /\ fault = "size_mismatch"
  /\ fabric = << >>
  /\ TopLevelChecks
  /\ 0 < Len(bm.children[top_block[1]])
  /\ Len(mm.children[top_module]) = 0
  /\ Len(bm.bits[top_block[1]]) > 0

(* ---------------- the join of the two trees ---------------- *)
Traversing == Running(ChainProtocols \cup {"CONFIG_MEM_FRAME_BASED"})

(* The name of the child the loop on top of the stack is at. *)
LoopName == InstanceNames(Top.module)[Top.child_id + 1]

(* The statement of C10 as written: a call on a module with configurable  *)
(* children whose first child has no block of that name neither returns   *)
(* nor appends a bit of its own block.                                    *)
C10_Original ==
  [][(Traversing /\ Top.pc = "entry" /\ NConf(Top) > 0
        /\ Named(Top.block, InstanceNames(Top.module)[1]) = {})
       => (fabric' = fabric /\ stack' # Returned)]_vars

(* C10 (amended): in both builders, whenever the current block has at    *)
(* least one child block, each iterated configurable child is resolved to *)
(* a child block that carries the synthesized instance name, and a miss   *)
(* ends the build at that node with nothing appended; a block             *)
(* without child blocks has its own bits appended without its module's    *)
(* configurable children being looked at.                                 *)
C10_JoinByNameOrFatal ==
  [][/\ (Traversing /\ Top.pc = "loop" /\ Top.child_id < Top.num_children
           /\ Named(Top.block, LoopName) = {}) =>
          (status' = "fatal" /\ fault' = "child_block_not_found"
             /\ fabric' = fabric /\ stack' = stack)
     /\ (Traversing /\ Descends) =>
          /\ Top.pc = "loop"
          /\ 0 < Len(bm.children[Top.block])
          /\ stack'[Len(stack')].block \in Named(Top.block, LoopName)
          /\ stack'[Len(stack')].module = mm.children[Top.module][Top.child_id + 1]
          /\ fabric' = fabric
     /\ (Traversing /\ Top.pc = "entry" /\ Len(bm.children[Top.block]) = 0) =>
          /\ TopReturns
          /\ BitIds(fabric') = BitIds(fabric) \o bm.bits[Top.block]
    ]_vars

(* A frame-based build ended on a child without a block after a           *)
(* standalone build of the same databases ended fatally too.              *)
C10_Witness ==
  /\ protocol = "CONFIG_MEM_FRAME_BASED"
  /\ status = "fatal"
  /\ fault = "child_block_not_found"
  /\ Top.pc = "loop"
  /\ Named(Top.block, LoopName) = {}
  /\ standalone_ref.status = "fatal"

(* ---------------- the top-level preconditions ---------------- *)
RootBlocks == {b \in 1..Len(bm.parent) : bm.parent[b] = INVALID}

(* Exactly one block has no parent and it is named like the top module. *)
OneNamedRoot ==
  /\ Cardinality(RootBlocks) = 1
  /\ \A b \in RootBlocks : bm.name[b] = mm.name[top_module]

(* C11: a traversal starts only when exactly one block has no parent and *)
(* that block carries the top module's name; with no root, several roots  *)
(* or another name the build ends fatally with nothing appended.          *)
C11_OneNamedRootOrFatal ==
  /\ []((status \in {"running", "returned"} \/ stack # << >> \/ fabric # << >>
           \/ (status = "fatal" /\ fault # "top_level")) => OneNamedRoot)
  /\ [][(status # "running" /\ ~OneNamedRoot)
          => (status' = "fatal" /\ fault' = "top_level"
                /\ stack' = << >> /\ fabric' = << >>)]_vars

(* A frame-based build of a database with two parentless blocks was       *)
(* rejected.                                                              *)
C11_Witness ==
  /\ protocol = "CONFIG_MEM_FRAME_BASED"
  /\ status = "fatal"
  /\ fault = "top_level"
  /\ Cardinality(RootBlocks) = 2
  /\ fabric = << >>

(* ---------------- termination ---------------- *)
(* The steps of a build that has started.  The build is one synchronous   *)
(* call: once started it keeps running until it returns or the process    *)
(* ends.                                                                  *)
BuildStep ==
  \/ ChainLeaf \/ ChainEnterLoop \/ ChainDescend \/ ChainLookupMiss
  \/ ChainParentBits \/ ChainReturn
  \/ FrameLeaf \/ FrameEarlyExit \/ FrameTooFewChildren \/ FrameEnterLoop
  \/ FrameDescend \/ FrameLookupMiss \/ FrameAddrOverflow \/ FrameParentBits
  \/ FrameReturn
  \/ Finish

LiveSpec == Init /\ [][Next]_vars /\ WF_vars(BuildStep)

(* Every call on the stack is on a child block of its caller's block. *)
StackDescends ==
  \A j \in 1..(Len(stack) - 1) :
    \E i \in 1..Len(bm.children[stack[j].block]) :
      bm.children[stack[j].block][i] = stack[j + 1].block

(* C12: every build, under any protocol and on any module graph (one in  *)
(* which a module is its own descendant included), eventually returns or  *)
(* ends fatally: each recursive call is on a child block of the current   *)
(* block, so the recursion is no deeper than the block tree.              *)
C12_BuildEnds ==
  /\ [](StackDescends /\ Len(stack) <= Len(bm.name))
  /\ (status = "running") ~> (status \in {"returned", "fatal"})

(* A traversal is inside two nested calls on the same module. *)
C12_Witness ==
  /\ status = "running"
  /\ \E i, j \in 1..Len(stack) : i < j /\ stack[i].module = stack[j].module

(* ================================================================== *)
(* VerilogTestbenchOption: the option object and its setters          *)
(* ================================================================== *)

(* File paths handed to the setters: the empty string and a file name. *)
FilePaths == {"", "ref.v"}

(* Time units handed to set_time_unit, kept as written in the source. *)
TimeUnits == {"1E-3", "1E-9"}

VERILOG_DEFAULT_NET_TYPE_STRING ==
  [VERILOG_DEFAULT_NET_TYPE_NONE |-> "none",
   VERILOG_DEFAULT_NET_TYPE_WIRE |-> "wire"]

EMBEDDED_BITSTREAM_HDL_TYPE_STRING ==
  [EMBEDDED_BITSTREAM_HDL_IVERILOG |-> "iverilog",
   EMBEDDED_BITSTREAM_HDL_MODELSIM |-> "modelsim",
   NUM_EMBEDDED_BITSTREAM_HDL_TYPES |-> "none"]

(* Strings handed to the two decoding setters: every known one and one
   that is none of them. *)
TypeStrings == {"none", "wire", "iverilog", "modelsim", "vhdl"}

(* The constructor: every member it assigns; fast_configuration_ is not
   assigned, so it holds whatever the storage held. *)
VerilogTestbenchOption(uninitialized) ==
  [output_directory_ |-> "",
   fabric_netlist_file_path_ |-> "",
   reference_benchmark_file_path_ |-> "",
   print_preconfig_top_testbench_ |-> FALSE,
   print_formal_verification_top_netlist_ |-> FALSE,
   print_top_testbench_ |-> FALSE,
   fast_configuration_ |-> uninitialized,
   simulation_ini_path_ |-> "",
   explicit_port_mapping_ |-> FALSE,
   include_signal_init_ |-> FALSE,
   default_net_type_ |-> "VERILOG_DEFAULT_NET_TYPE_NONE",
   embedded_bitstream_hdl_type_ |-> "EMBEDDED_BITSTREAM_HDL_MODELSIM",
   time_unit_ |-> "1E-3",
   time_stamp_ |-> TRUE,
   verbose_output_ |-> FALSE]

(* ---------------- accessors ---------------- *)
reference_benchmark_file_path == opt.reference_benchmark_file_path_

print_formal_verification_top_netlist ==
  opt.print_formal_verification_top_netlist_

print_preconfig_top_testbench == opt.print_preconfig_top_testbench_

print_top_testbench == opt.print_top_testbench_

print_simulation_ini == opt.simulation_ini_path_ # ""

no_self_checking == opt.reference_benchmark_file_path_ = ""

(* ---------------- mutators, as functions of the object ---------------- *)
preconfig_top_testbench(o, enabled) ==
  LET on == enabled /\ o.reference_benchmark_file_path_ # ""
      o1 == [o EXCEPT !.print_preconfig_top_testbench_ = on]
  IN  IF on /\ ~o1.print_formal_verification_top_netlist_
        THEN [o1 EXCEPT !.print_formal_verification_top_netlist_ = TRUE]
        ELSE o1

top_testbench(o, enabled) ==
  [o EXCEPT !.print_top_testbench_ =
              enabled /\ o.reference_benchmark_file_path_ # ""]

(* A reference path that is stored without the chain effect. *)
reference_benchmark_file_path_stored(o, path) ==
  [o EXCEPT !.reference_benchmark_file_path_ = path]

reference_benchmark_file_path_set(o, path) ==
  LET o1 == [o EXCEPT !.reference_benchmark_file_path_ = path]
      o2 == preconfig_top_testbench(o1, o1.print_preconfig_top_testbench_)
  IN  top_testbench(o2, o2.print_top_testbench_)

default_net_type_decoded(o, str) ==
  IF str = VERILOG_DEFAULT_NET_TYPE_STRING.VERILOG_DEFAULT_NET_TYPE_NONE
    THEN [o EXCEPT !.default_net_type_ = "VERILOG_DEFAULT_NET_TYPE_NONE"]
  ELSE IF str = VERILOG_DEFAULT_NET_TYPE_STRING.VERILOG_DEFAULT_NET_TYPE_WIRE
    THEN [o EXCEPT !.default_net_type_ = "VERILOG_DEFAULT_NET_TYPE_WIRE"]
  ELSE o

embedded_bitstream_hdl_type_decoded(o, str) ==
  IF str = EMBEDDED_BITSTREAM_HDL_TYPE_STRING.NUM_EMBEDDED_BITSTREAM_HDL_TYPES
    THEN [o EXCEPT !.embedded_bitstream_hdl_type_ =
                     "NUM_EMBEDDED_BITSTREAM_HDL_TYPES"]
  ELSE IF str = EMBEDDED_BITSTREAM_HDL_TYPE_STRING.EMBEDDED_BITSTREAM_HDL_IVERILOG
    THEN [o EXCEPT !.embedded_bitstream_hdl_type_ =
                     "EMBEDDED_BITSTREAM_HDL_IVERILOG"]
  ELSE IF str = EMBEDDED_BITSTREAM_HDL_TYPE_STRING.EMBEDDED_BITSTREAM_HDL_MODELSIM
    THEN [o EXCEPT !.embedded_bitstream_hdl_type_ =
                     "EMBEDDED_BITSTREAM_HDL_MODELSIM"]
  ELSE o

(* ---------------- one action per setter ---------------- *)
BuildUntouched ==
  UNCHANGED <<bm, mm, protocol, status, fault, stack, fabric, standalone_ref>>

set_output_directory ==
  /\ \E output_dir \in FilePaths :
       opt' = [opt EXCEPT !.output_directory_ = output_dir]
  /\ BuildUntouched

set_fabric_netlist_file_path ==
  /\ \E path \in FilePaths :
       opt' = [opt EXCEPT !.fabric_netlist_file_path_ = path]
  /\ BuildUntouched

set_reference_benchmark_file_path ==
  /\ \E path \in FilePaths :
       opt' = reference_benchmark_file_path_set(opt, path)
  /\ BuildUntouched

set_print_formal_verification_top_netlist ==
  /\ \E enabled \in BOOLEAN :
       opt' = [opt EXCEPT !.print_formal_verification_top_netlist_ = enabled]
  /\ BuildUntouched

set_fast_configuration ==
  /\ \E enabled \in BOOLEAN :
       opt' = [opt EXCEPT !.fast_configuration_ = enabled]
  /\ BuildUntouched

set_print_preconfig_top_testbench ==
  /\ \E enabled \in BOOLEAN : opt' = preconfig_top_testbench(opt, enabled)
  /\ BuildUntouched

set_print_top_testbench ==
  /\ \E enabled \in BOOLEAN : opt' = top_testbench(opt, enabled)
  /\ BuildUntouched

set_print_simulation_ini ==
  /\ \E path \in FilePaths :
       opt' = [opt EXCEPT !.simulation_ini_path_ = path]
  /\ BuildUntouched

set_explicit_port_mapping ==
  /\ \E enabled \in BOOLEAN :
       opt' = [opt EXCEPT !.explicit_port_mapping_ = enabled]
  /\ BuildUntouched

set_include_signal_init ==
  /\ \E enabled \in BOOLEAN :
       opt' = [opt EXCEPT !.include_signal_init_ = enabled]
  /\ BuildUntouched

set_default_net_type ==
  /\ \E str \in TypeStrings : opt' = default_net_type_decoded(opt, str)
  /\ BuildUntouched

set_embedded_bitstream_hdl_type ==
  /\ \E str \in TypeStrings :
       opt' = embedded_bitstream_hdl_type_decoded(opt, str)
  /\ BuildUntouched

set_time_unit ==
  /\ \E time_unit \in TimeUnits : opt' = [opt EXCEPT !.time_unit_ = time_unit]
  /\ BuildUntouched

set_time_stamp ==
  /\ \E enabled \in BOOLEAN : opt' = [opt EXCEPT !.time_stamp_ = enabled]
  /\ BuildUntouched

set_verbose_output ==
  /\ \E enabled \in BOOLEAN : opt' = [opt EXCEPT !.verbose_output_ = enabled]
  /\ BuildUntouched

(* A freshly constructed option object; no build is under way. *)
OptInit ==
  /\ \E uninitialized \in BOOLEAN : opt = VerilogTestbenchOption(uninitialized)
  /\ bm = EmptyInput.bm
  /\ mm = EmptyInput.mm
  /\ protocol = "CONFIG_MEM_STANDALONE"
  /\ status = "none"
  /\ fault = "none"
  /\ stack = << >>
  /\ fabric = << >>
  /\ standalone_ref = [status |-> "none", fabric |-> << >>]

OptNext ==
  \/ set_output_directory
  \/ set_fabric_netlist_file_path
  \/ set_reference_benchmark_file_path
  \/ set_print_formal_verification_top_netlist
  \/ set_fast_configuration
  \/ set_print_preconfig_top_testbench
  \/ set_print_top_testbench
  \/ set_print_simulation_ini
  \/ set_explicit_port_mapping
  \/ set_include_signal_init
  \/ set_default_net_type
  \/ set_embedded_bitstream_hdl_type
  \/ set_time_unit
  \/ set_time_stamp
  \/ set_verbose_output

OptSpec == OptInit /\ [][OptNext]_vars

(* C13: whenever the pre-configured top testbench is enabled, the
   formal-verification top netlist is enabled as well, after any sequence
   of setter calls. *)
C13_PreconfigForcesFormal ==
  print_preconfig_top_testbench => print_formal_verification_top_netlist

(* C14: the pre-configured top testbench and the top testbench are each
   enabled only while the reference benchmark file path is non-empty, and
   a call that leaves the reference path empty leaves both disabled. *)
C14_TestbenchesNeedReference ==
  /\ [](print_preconfig_top_testbench => reference_benchmark_file_path # "")
  /\ [](print_top_testbench => reference_benchmark_file_path # "")
  /\ [][opt'.reference_benchmark_file_path_ = ""
          => (~opt'.print_preconfig_top_testbench_
              /\ ~opt'.print_top_testbench_)]_vars

(* Both testbenches are enabled, over a reference benchmark. *)
C14_Witness ==
  /\ print_preconfig_top_testbench
  /\ print_top_testbench
  /\ reference_benchmark_file_path = "ref.v"

(* ================================================================== *)
(* Every configuration bit is emitted once                            *)
(* ================================================================== *)

(* No two child blocks of one block carry the same name. *)
DistinctSiblingNames ==
  \A blk \in Blocks(bm) :
    \A i, j \in 1..Len(block_children(bm, blk)) :
      block_name(bm, block_children(bm, blk)[i])
        = block_name(bm, block_children(bm, blk)[j]) => i = j

(* No two configurable children of one module carry the same instance name. *)
DistinctInstanceNames ==
  \A mod \in Modules(mm) :
    \A i, j \in 1..Len(configurable_children(mm, mod)) :
      InstanceNames(mod)[i] = InstanceNames(mod)[j] => i = j

(* The positions of the output that reference the bit. *)
EmittedAt(bit) == {i \in 1..Len(fabric) : fabric[i].bit = bit}

BitEmittingProtocols ==
  {"CONFIG_MEM_STANDALONE", "CONFIG_MEM_SCAN_CHAIN", "CONFIG_MEM_FRAME_BASED"}

(* C15: when a standalone-chain, scan-chain or frame-based build returns on
   trees with distinct sibling block names and distinct configurable-child
   instance names, every configuration bit of the block tree is referenced
   by exactly one emitted fabric bit, and the output references nothing
   else. *)
C15_OutputIsPermutation ==
  (status = "returned" /\ protocol \in BitEmittingProtocols
     /\ DistinctSiblingNames /\ DistinctInstanceNames)
  => /\ \A bit \in bits(bm) : Cardinality(EmittedAt(bit)) = 1
     /\ \A i \in 1..Len(fabric) : fabric[i].bit \in bits(bm)
     /\ Len(fabric) = Cardinality(bits(bm))

(* A frame-based build over distinctly named trees returned the bits of
   several leaf blocks. *)
C15_Witness ==
  /\ status = "returned"
  /\ protocol = "CONFIG_MEM_FRAME_BASED"
  /\ DistinctSiblingNames
  /\ DistinctInstanceNames
  /\ Len(fabric) >= 4
  /\ \E i, j \in 1..Len(fabric) :
       \E blk1, blk2 \in Blocks(bm) :
         /\ blk1 # blk2
         /\ \E k \in 1..Len(block_bits(bm, blk1)) :
              block_bits(bm, blk1)[k] = fabric[i].bit
         /\ \E k \in 1..Len(block_bits(bm, blk2)) :
              block_bits(bm, blk2)[k] = fabric[j].bit

====
